---- MODULE Spec2Model ----
(***************************************************************************)
(* A model of src/logger.py: the Logging facade (setup, shutdown,          *)
(* cleanup_logs) and the Logger stream replacement (write, flush, close,   *)
(* _rotate_log_if_needed) together with the environment they act on: the   *)
(* process-wide sys.stdout / sys.stderr slots, the console stream, the     *)
(* log directory and the wall clock.                                       *)
(*                                                                         *)
(* Text is a sequence of one-character strings (plus a few multi-character *)
(* tokens standing for the fixed texts the program prints).  Time is       *)
(* counted in ticks; TicksPerDay of them make a calendar day of the        *)
(* configured timezone.                                                    *)
(***************************************************************************)
EXTENDS Integers, Sequences, FiniteSets, TLC

\* ------------------------------------------------------------------ bounds
MaxWrites == 2
MaxNow == 2
MaxSetups == 2
MaxRetention == 1

\* The ticks of the clock in one calendar day.
TicksPerDay == 2

Threads == {"t1", "t2"}

NL == "\n"
SP == " "

\* The write arguments a thread draws from: a fragment with leading
\* whitespace, a lone newline, a whole line, and one text with two lines (the
\* second with trailing whitespace) that leaves a blank residue.
MsgsOf(t) ==
  IF t = "t1"
  THEN { <<SP, "a">>, <<NL>>, <<"a", NL>> }
  ELSE { <<NL>>, <<"b", NL>>, <<"a", NL, "b", SP, NL, SP>> }

\* The whole lines a thread draws from when every call carries one message.
LinesOf(t) ==
  IF t = "t1"
  THEN { <<"a", NL>>, <<"a", "a", NL>> }
  ELSE { <<"b", NL>>, <<"b", "b", NL>> }

None == "None"
NoDay == -1
NoEntry == [kind |-> "absent", mtime |-> 0, content |-> <<>>]
NoHandle == [path |-> None, state |-> "none"]

\* ------------------------------------------------------------- text helpers
IsSpace(c) == c \in {SP, NL}

\* str.strip(): the text without its leading and trailing whitespace.
RECURSIVE LStrip(_)
LStrip(s) ==
  IF s = <<>> THEN <<>>
  ELSE IF IsSpace(Head(s)) THEN LStrip(Tail(s)) ELSE s

RECURSIVE RStrip(_)
RStrip(s) ==
  IF s = <<>> THEN <<>>
  ELSE IF IsSpace(s[Len(s)]) THEN RStrip(SubSeq(s, 1, Len(s) - 1)) ELSE s

Strip(s) == RStrip(LStrip(s))

HasNL(s) == \E i \in 1..Len(s) : s[i] = NL

\* The index of the first newline of s (s has one).
FirstNL(s) == CHOOSE i \in 1..Len(s) : s[i] = NL /\ \A j \in 1..(i - 1) : s[j] # NL

\* str.split('\n', 1): the text before the first newline, and the text after.
SplitLine(s) ==
  LET i == FirstNL(s)
  IN  [line |-> SubSeq(s, 1, i - 1), rest |-> SubSeq(s, i + 1, Len(s))]

\* ------------------------------------------------------------ clock helpers
\* datetime.now(tz).date(): the calendar day a tick falls in.
DateOf(t) == t \div TicksPerDay

\* strftime(timestamp_format): the time of day, which does not name the day.
TimeOf(t) == t % TicksPerDay

Timestamp(t) == ToString(TimeOf(t))

\* strftime(log_format): one file name per calendar day.
LogFormat(t) == "log_" \o ToString(DateOf(t))

\* line_format.format(timestamp=..., message=...) with "[{timestamp}] {message}".
LineFormat(ts, message) == <<"[", ts, "]", SP>> \o message

\* A print(...) call on a stream: write(text) followed by write("\n").
StampedMsg(t, text) == <<"[", Timestamp(t), "]", SP, text>>

Days == 0..DateOf(MaxNow)
LogNames == {"log_" \o ToString(d) : d \in Days}
OtherNames == {"old_a", "subdir"}
Names == LogNames \cup OtherNames

\* ------------------------------------------------------------------- state
VARIABLES
  now,              \* the wall clock, in ticks
  cfg,              \* the Logging configuration (fixed at construction)
  sys_stdout,       \* the process-wide sys.stdout slot
  sys_stderr,       \* the process-wide sys.stderr slot
  console,          \* all text delivered to the original stdout stream
  dir_exists,       \* whether logs_dir exists
  files,            \* the entries of logs_dir: name -> entry
  terminal,         \* Logger.terminal (None: no Logger was constructed)
  log_file,         \* Logger.log_file: None or an open/closed handle
  current_log_path, \* Logger.current_log_path
  current_day,      \* Logger.current_day
  buffer,           \* Logger.buffer
  lock,             \* Logger.lock: None or the thread holding it
  pc,               \* where each thread is inside Logger.write
  local,            \* each thread's local text inside Logger.write
  raised,           \* the unhandled exceptions that left an operation
  calls,            \* history: the write calls on the interceptor, in lock order
  callMark,         \* history: the number of calls when install finished
  conMark,          \* history: the length of the console when install finished
  fileMark,         \* history: per file, its length when install finished
  captured,         \* history: what sys.stdout, sys.stderr held before install
  setups,           \* history: the number of setup and cleanup calls
  budget            \* the number of write calls the threads may still make

vars ==
  << now, cfg, sys_stdout, sys_stderr, console, dir_exists, files, terminal,
     log_file, current_log_path, current_day, buffer, lock, pc, local, raised,
     calls, callMark, conMark, fileMark, captured, setups, budget >>

\* The part of the state a Logger operation reads and writes, as one record;
\* st and err carry how the operation ended ("ok", "raise", "blocked", ...).
World ==
  [ console |-> console, files |-> files, log_file |-> log_file,
    current_log_path |-> current_log_path, current_day |-> current_day,
    buffer |-> buffer, calls |-> calls, st |-> "ok", err |-> None ]

\* ------------------------------------------------------------- file system
\* open(path, "a"): creates the file when it does not exist.
OpenAppend(fs, path, t) ==
  IF fs[path].kind = "absent"
  THEN [fs EXCEPT ![path] = [kind |-> "file", mtime |-> t, content |-> <<>>]]
  ELSE fs

\* file.write(text) on an open handle in append mode.
FileWrite(fs, h, text, t) ==
  IF fs[h.path].kind = "file"
  THEN [fs EXCEPT ![h.path].content = @ \o text, ![h.path].mtime = t]
  ELSE fs

\* file.close(): closing a closed file is allowed.
CloseHandle(h) == IF h.state = "none" THEN h ELSE [h EXCEPT !.state = "closed"]

\* ------------------------------------------------------------------ Logger
ExpectedLogPath(t) == LogFormat(t)

RolloverMsg(t) ==
  <<"=", NL, "Logging initiated for", ToString(DateOf(t)), NL, "=", NL>>

ClosedMsg(t, day) ==
  StampedMsg(t, "Closed log file for") \o <<ToString(day), NL>>

\* Logger.write(message, is_internal=True), once its lock is taken
\* (lines 164-169).
WriteInternal(w, message, t) ==
  [w EXCEPT
     !.console = IF cfg.log_to_console THEN @ \o message ELSE @,
     !.files = IF w.log_file.state = "open" /\ cfg.log_to_file
               THEN FileWrite(@, w.log_file, message, t) ELSE @,
     !.st = IF w.log_file.state = "closed" /\ cfg.log_to_file THEN "raise" ELSE "ok",
     !.err = IF w.log_file.state = "closed" /\ cfg.log_to_file THEN "ValueError" ELSE @]

\* Lines 151-153: the open file is closed, and the terminal told so.
CloseOldLog(w, t) ==
  IF w.log_file.state # "none"
  THEN [w EXCEPT !.log_file = CloseHandle(@),
                 !.console = @ \o ClosedMsg(t, w.current_day)]
  ELSE w

\* Lines 155-157: current_day and the path are set, then the file is opened;
\* open() raises OSError when the file cannot be opened.
OpenNewLog(w, t, canOpen) ==
  IF canOpen
  THEN [w EXCEPT !.current_day = DateOf(t),
                 !.current_log_path = ExpectedLogPath(t),
                 !.files = OpenAppend(@, ExpectedLogPath(t), t),
                 !.log_file = [path |-> ExpectedLogPath(t), state |-> "open"],
                 !.st = "banner"]
  ELSE [w EXCEPT !.current_day = DateOf(t),
                 !.current_log_path = ExpectedLogPath(t),
                 !.st = "raise", !.err = "OSError"]

\* Whether _rotate_log_if_needed has anything to do (lines 146-150).
NeedsRotation(w, t) == cfg.log_to_file /\ DateOf(t) # w.current_day

\* Logger._rotate_log_if_needed up to, and without, its call of
\* self.write(rollover_msg, is_internal=True).  st = "same": nothing to do;
\* "banner": the new file is open and the banner is still to be written;
\* "raise": open() raised OSError.
RotateLogIfNeeded(w, t, canOpen) ==
  IF NeedsRotation(w, t)
  THEN OpenNewLog(CloseOldLog(w, t), t, canOpen)
  ELSE [w EXCEPT !.st = "same"]

\* Logger.write line 173-174: the echo to the captured console stream.
Echo(w, message) ==
  [w EXCEPT !.console = IF cfg.log_to_console THEN @ \o message ELSE @]

\* A record line formed from the trimmed line, as close forms its last line.
WriteRecordTrimmed(t, line) == LineFormat(Timestamp(t), Strip(line)) \o <<NL>>

\* One record line as write forms it (lines 181-183).
WriteRecord(t, line) == LineFormat(Timestamp(t), line) \o <<NL>>

\* A test that keeps every line that has any character, blank or not.
KeepsNonEmpty(line) == line # <<>>

\* Whether write makes a record of an extracted line (line 180).
KeepsLine(line) == Strip(line) # <<>>

\* Logger.write lines 178-183: extract every complete line of the buffer and
\* append the non-blank ones to the file.  Writing to a closed handle raises
\* ValueError, to a handle that is None AttributeError.
RECURSIVE DrainBuffer(_, _)
DrainBuffer(w, t) ==
  IF ~HasNL(w.buffer) THEN [w EXCEPT !.st = "ok"]
  ELSE IF ~KeepsLine(SplitLine(w.buffer).line)
  THEN DrainBuffer([w EXCEPT !.buffer = SplitLine(@).rest], t)
  ELSE IF w.log_file.state = "open"
  THEN DrainBuffer(
         [w EXCEPT !.buffer = SplitLine(@).rest,
                   !.files = FileWrite(@, w.log_file,
                                       WriteRecord(t, SplitLine(w.buffer).line), t)], t)
  ELSE [w EXCEPT !.buffer = SplitLine(@).rest,
                 !.st = "raise",
                 !.err = IF w.log_file.state = "closed"
                         THEN "ValueError" ELSE "AttributeError"]

\* Logger.write lines 176-183 in one piece: the buffer takes the message and
\* is drained, when a file handle is held.
BufferAndDrain(w, message, t) ==
  IF cfg.log_to_file /\ w.log_file.state # "none"
  THEN DrainBuffer([w EXCEPT !.buffer = @ \o message], t)
  ELSE [w EXCEPT !.st = "ok"]

\* Logger.write after its call of _rotate_log_if_needed returned r.  A
\* rotation that opened the file goes on to self.write(rollover_msg,
\* is_internal=True) with the lock held; the lock is a threading.Lock, which
\* its holder cannot take again: the write never returns (st = "blocked").
AfterRotate(r, message, t) ==
  IF r.st = "raise" THEN r
  ELSE IF r.st = "banner" THEN [r EXCEPT !.st = "blocked"]
  ELSE BufferAndDrain(Echo(r, message), message, t)

\* Logger.write(message) from taking the lock to releasing it, for a caller
\* that finds the lock free.
WriteWhole(w, message, t, canOpen) ==
  AfterRotate(RotateLogIfNeeded(w, t, canOpen), message, t)

\* The second write of a print: the newline, when the first returned.
PrintNewline(a, t, canOpen) ==
  IF a.st # "ok" THEN a
  ELSE WriteWhole([a EXCEPT !.calls = Append(@, [th |-> "print", msg |-> <<NL>>])],
                  <<NL>>, t, canOpen)

\* print(text) with sys.stdout as its target: write(text), then write("\n");
\* through the Logger when it is installed, else straight to the console.
PrintTo(w, text, t, canOpen, via) ==
  IF via
  THEN PrintNewline(
         WriteWhole([w EXCEPT !.calls = Append(@, [th |-> "print", msg |-> text])],
                    text, t, canOpen),
         t, canOpen)
  ELSE [w EXCEPT !.console = @ \o text \o <<NL>>, !.st = "ok"]

\* ----------------------------------------------------------------- Logging
RECURSIVE SeqOf(_)
SeqOf(S) ==
  IF S = {} THEN <<>>
  ELSE <<CHOOSE y \in S : TRUE>> \o SeqOf(S \ {CHOOSE y \in S : TRUE})

\* The order in which os.scandir yields the entries.
ScanOrder == SeqOf(Names)

Present(fs) == {n \in Names : fs[n].kind # "absent"}

\* The date before which a file is deleted (line 89).
CutoffDate(t) == DateOf(t) - cfg.retention_days

\* A comparison that also deletes the file dated exactly at the cutoff.
IsExpiredInclusive(e, t) == e.kind = "file" /\ DateOf(e.mtime) <= DateOf(t) - cfg.retention_days

\* Whether the sweep deletes an entry (lines 92-96).
IsExpired(e, t) == e.kind = "file" /\ DateOf(e.mtime) < CutoffDate(t)

\* The loop of cleanup_logs (lines 91-100) from the i-th entry on.  visited:
\* the entries reached before entry.is_file() raised (all of them when it never
\* did); skipped: the files whose stat() or os.remove() raised OSError.  A
\* print that does not return ends the loop.
RECURSIVE SweepFrom(_, _, _, _, _, _, _)
SweepFrom(w, i, t, canOpen, visited, skipped, via) ==
  IF w.st # "ok" \/ i > Len(ScanOrder) THEN w
  ELSE IF ScanOrder[i] \notin visited \/ w.files[ScanOrder[i]].kind # "file"
  THEN SweepFrom(w, i + 1, t, canOpen, visited, skipped, via)
  ELSE IF ScanOrder[i] \in skipped
  THEN SweepFrom(
         PrintTo(w, StampedMsg(t, "Error accessing file") \o <<ScanOrder[i], "Skipping.">>,
                 t, canOpen, via),
         i + 1, t, canOpen, visited, skipped, via)
  ELSE IF IsExpired(w.files[ScanOrder[i]], t)
  THEN SweepFrom(
         PrintTo([w EXCEPT !.files[ScanOrder[i]] = NoEntry],
                 StampedMsg(t, "Deleted old log file:") \o <<ScanOrder[i]>>,
                 t, canOpen, via),
         i + 1, t, canOpen, visited, skipped, via)
  ELSE SweepFrom(w, i + 1, t, canOpen, visited, skipped, via)

\* The handler of line 101-102, entered when is_file() raised.
CleanupExcept(s, aborted, t, canOpen, via) ==
  IF s.st = "ok" /\ aborted
  THEN PrintTo(s, StampedMsg(t, "Error during log cleanup"), t, canOpen, via)
  ELSE s

\* The finally clause of lines 103-104.
CleanupFinally(b, t, canOpen, via) ==
  IF b.st = "ok"
  THEN PrintTo(b, StampedMsg(t, "Log cleanup finished."), t, canOpen, via)
  ELSE b

\* cleanup_logs after its first print returned p0 (lines 86-104).
CleanupBody(p0, t, canOpen, visited, skipped, via, isdir) ==
  IF p0.st # "ok" THEN p0
  ELSE IF ~isdir THEN CleanupFinally(p0, t, canOpen, via)
  ELSE CleanupFinally(
         CleanupExcept(SweepFrom(p0, 1, t, canOpen, visited, skipped, via),
                       Present(p0.files) \ visited # {}, t, canOpen, via),
         t, canOpen, via)

\* Logging.cleanup_logs.  A print that does not return normally ends the
\* sweep there: the first print (line 85) is outside the try, and when it
\* returns normally the later prints, which do the same write on the same
\* handle at the same time, do too.
CleanupLogs(w, t, canOpen, visited, skipped, via, isdir) ==
  CleanupBody(PrintTo(w, StampedMsg(t, "Running daily log cleanup..."), t, canOpen, via),
              t, canOpen, visited, skipped, via, isdir)

\* ----------------------------------------------------------------- actions
Apply(w) ==
  /\ console' = w.console
  /\ files' = w.files
  /\ log_file' = w.log_file
  /\ current_log_path' = w.current_log_path
  /\ current_day' = w.current_day
  /\ buffer' = w.buffer
  /\ calls' = w.calls

Fault(op, w) == op \o ":" \o w.err

\* An operation of thread t whose call of Logger.write did not return: either
\* the thread waits for ever for the lock it holds, or an exception leaves the
\* operation.
Abandon(t, op, w) ==
  /\ Apply(w)
  /\ IF w.st = "blocked"
     THEN /\ lock' = t
          /\ pc' = [pc EXCEPT ![t] = "blocked"]
          /\ UNCHANGED raised
     ELSE /\ raised' = raised \cup {Fault(op, w)}
          /\ UNCHANGED <<lock, pc>>

InWrite(t) == pc[t] \in {"rotate", "append", "store", "drain"}

\* The fields of a Logger as __init__ sets them (lines 133-136).
FreshLogger(w) ==
  [w EXCEPT !.log_file = NoHandle, !.current_log_path = None,
            !.current_day = NoDay, !.buffer = <<>>]

\* Logger.__init__ after its call of _rotate_log_if_needed (line 139), which
\* runs without the lock held: the banner write takes the lock and returns.
FirstRotate(r, t) ==
  IF r.st = "banner" THEN WriteInternal(r, RolloverMsg(t), t)
  ELSE IF r.st = "same" THEN [r EXCEPT !.st = "ok"]
  ELSE r

\* Logger.__init__ (lines 122-139) on the world left by the steps before it.
NewLogger(w, t, canOpen) ==
  FirstRotate(RotateLogIfNeeded(FreshLogger(w), t, canOpen), t)

\* A Logger that would keep the stream of the error role instead.
CaptureStderr(out, err) == err

\* What Logger.__init__ stores as self.terminal (line 122).
CaptureTerminal(out, err) == out

\* setup lines 57-59: a Logger is installed already, and p is the world after
\* print("Logging is already set up.").
SetupAlready(t, p) ==
  /\ IF p.st # "ok" THEN Abandon(t, "setup", p)
     ELSE Apply(p) /\ UNCHANGED <<lock, pc, raised>>
  /\ UNCHANGED <<sys_stdout, sys_stderr, terminal, callMark, conMark, fileMark, captured>>

\* setup lines 61-72: n is the world after Logger(...), c the world before.
\* When Logger(...) raised, no Logger is installed and the object is dropped.
SetupInstall(t, c, n) ==
  /\ \A u \in Threads : ~InWrite(u)
  /\ IF n.st # "ok"
     THEN /\ Apply(c)
          /\ raised' = raised \cup {Fault("setup", n)}
          /\ UNCHANGED <<sys_stdout, sys_stderr, terminal, lock, pc,
                         callMark, conMark, fileMark, captured>>
     ELSE /\ Apply(n)
          /\ terminal' = CaptureTerminal(sys_stdout, sys_stderr)
          /\ sys_stdout' = "Logger"
          /\ sys_stderr' = "Logger"
          /\ lock' = None
          /\ callMark' = Len(n.calls)
          /\ conMark' = Len(n.console)
          /\ fileMark' = [f \in Names |-> Len(n.files[f].content)]
          /\ captured' = <<sys_stdout, sys_stderr>>
          /\ UNCHANGED <<pc, raised>>

\* setup from line 57 on: c is the world after lines 52-55.
SetupCheck(t, c, canOpen) ==
  IF c.st # "ok"
  THEN /\ Abandon(t, "setup", c)
       /\ UNCHANGED <<sys_stdout, sys_stderr, terminal, callMark, conMark, fileMark, captured>>
  ELSE IF sys_stdout = "Logger"
  THEN SetupAlready(t, PrintTo(c, <<"Logging is already set up.">>, now, canOpen, TRUE))
  ELSE SetupInstall(t, c, NewLogger(c, now, canOpen))

\* Logging.setup, called by thread t.  With a Logger installed its prints go
\* through Logger.write and need the lock.
Setup(t, canOpen, visited, skipped) ==
  /\ pc[t] = "idle"
  /\ setups < MaxSetups
  /\ setups' = setups + 1
  /\ sys_stdout = "Logger" => lock = None
  /\ dir_exists' = (dir_exists \/ cfg.log_to_file)
  /\ UNCHANGED <<now, cfg, local, budget>>
  /\ SetupCheck(t,
                IF cfg.log_to_file /\ cfg.cleanup_on_startup
                THEN CleanupLogs(World, now, canOpen, visited, skipped,
                                 sys_stdout = "Logger", TRUE)
                ELSE World,
                canOpen)

\* A close that tests the buffer without trimming it.
FlushResidueAll(w, t) ==
  IF w.buffer # <<>> /\ w.log_file.state # "none"
  THEN IF w.log_file.state = "open"
       THEN [w EXCEPT
               !.files = FileWrite(@, w.log_file,
                                   LineFormat(Timestamp(t), Strip(w.buffer)) \o <<NL>>, t),
               !.buffer = <<>>]
       ELSE [w EXCEPT !.st = "raise", !.err = "ValueError"]
  ELSE w

\* Logger.close lines 191-195: the residue of the buffer becomes a record.
FlushResidue(w, t) ==
  IF Strip(w.buffer) # <<>> /\ w.log_file.state # "none"
  THEN IF w.log_file.state = "open"
       THEN [w EXCEPT
               !.files = FileWrite(@, w.log_file,
                                   LineFormat(Timestamp(t), Strip(w.buffer)) \o <<NL>>, t),
               !.buffer = <<>>]
       ELSE [w EXCEPT !.st = "raise", !.err = "ValueError"]
  ELSE w

\* Logger.close lines 197-199: the handle is closed and dropped.
DropHandle(w) ==
  IF w.st = "ok" /\ w.log_file.state # "none"
  THEN [w EXCEPT !.log_file = NoHandle]
  ELSE w

\* Logger.close (lines 190-199).
Close(w, t) == DropHandle(FlushResidue(w, t))

\* shutdown lines 77-80.
Restore(c) ==
  /\ sys_stdout' = terminal
  /\ sys_stderr' = terminal
  /\ Apply(c)
  /\ raised' = IF c.st = "ok" THEN raised ELSE raised \cup {Fault("shutdown", c)}

\* Logging.shutdown, called by thread t.
Shutdown(t) ==
  /\ pc[t] = "idle"
  /\ UNCHANGED <<now, cfg, dir_exists, terminal, lock, pc, local, callMark,
                 conMark, fileMark, captured, setups, budget>>
  /\ IF sys_stdout = "Logger"
     THEN Restore(Close(World, now))
     ELSE UNCHANGED <<sys_stdout, sys_stderr, console, files, log_file,
                      current_log_path, current_day, buffer, calls, raised>>

\* Logger.flush, called by thread t on the Logger it finds in sys.stdout.
Flush(t) ==
  /\ pc[t] = "idle"
  /\ sys_stdout = "Logger"
  /\ raised' = IF log_file.state = "closed"
               THEN raised \cup {"flush:ValueError"} ELSE raised
  /\ UNCHANGED <<now, cfg, sys_stdout, sys_stderr, console, dir_exists, files,
                 terminal, log_file, current_log_path, current_day, buffer, lock,
                 pc, local, calls, callMark, conMark, fileMark, captured, setups,
                 budget>>

\* A write that enters without waiting for the lock.
WriteEnterUnlocked(t, message) ==
  /\ pc[t] = "idle"
  /\ terminal # None
  /\ budget > 0
  /\ budget' = budget - 1
  /\ lock' = t
  /\ pc' = [pc EXCEPT ![t] = "rotate"]
  /\ local' = [local EXCEPT ![t] = message]
  /\ calls' = Append(calls, [th |-> t, msg |-> message])
  /\ UNCHANGED <<now, cfg, sys_stdout, sys_stderr, console, dir_exists, files,
                 terminal, log_file, current_log_path, current_day, buffer,
                 raised, callMark, conMark, fileMark, captured, setups>>

\* Logger.write(message) by thread t, line 163: the lock is taken.  A thread
\* can reach the Logger through sys.stdout or through a reference it took
\* earlier, so the call is possible once a Logger exists.
WriteEnter(t, message) ==
  /\ pc[t] = "idle"
  /\ terminal # None
  /\ lock = None
  /\ budget > 0
  /\ budget' = budget - 1
  /\ lock' = t
  /\ pc' = [pc EXCEPT ![t] = "rotate"]
  /\ local' = [local EXCEPT ![t] = message]
  /\ calls' = Append(calls, [th |-> t, msg |-> message])
  /\ UNCHANGED <<now, cfg, sys_stdout, sys_stderr, console, dir_exists, files,
                 terminal, log_file, current_log_path, current_day, buffer,
                 raised, callMark, conMark, fileMark, captured, setups>>

\* Logger.write after line 172 returned r, and line 173-174.
WriteRotated(t, r) ==
  /\ Apply(IF r.st = "same" THEN Echo(r, local[t]) ELSE r)
  /\ raised' = IF r.st = "raise" THEN raised \cup {Fault("write", r)} ELSE raised
  /\ lock' = IF r.st = "raise" THEN None ELSE lock
  /\ pc' = [pc EXCEPT ![t] = IF r.st = "raise" THEN "idle"
                             ELSE IF r.st = "banner" THEN "blocked"
                             ELSE "append"]

\* Logger.write lines 171-174: rotate if needed, then echo to the console.
WriteRotate(t, canOpen) ==
  /\ pc[t] = "rotate"
  /\ UNCHANGED <<now, cfg, sys_stdout, sys_stderr, dir_exists, terminal, local,
                 callMark, conMark, fileMark, captured, setups, budget>>
  /\ WriteRotated(t, RotateLogIfNeeded(World, now, canOpen))

\* A write that would assign the message to the buffer instead of adding it.
WriteAppendOverwrite(t) ==
  /\ pc[t] = "append"
  /\ UNCHANGED <<now, cfg, sys_stdout, sys_stderr, console, dir_exists, files,
                 terminal, log_file, current_log_path, current_day, buffer,
                 raised, calls, callMark, conMark, fileMark, captured, setups,
                 budget>>
  /\ IF cfg.log_to_file /\ log_file.state # "none"
     THEN /\ local' = local
          /\ pc' = [pc EXCEPT ![t] = "store"]
          /\ UNCHANGED lock
     ELSE /\ local' = [local EXCEPT ![t] = <<>>]
          /\ pc' = [pc EXCEPT ![t] = "idle"]
          /\ lock' = None

\* Logger.write lines 176-177: the test of self.log_file and the read of
\* self.buffer for "self.buffer += message".
WriteAppend(t) ==
  /\ pc[t] = "append"
  /\ UNCHANGED <<now, cfg, sys_stdout, sys_stderr, console, dir_exists, files,
                 terminal, log_file, current_log_path, current_day, buffer,
                 raised, calls, callMark, conMark, fileMark, captured, setups,
                 budget>>
  /\ IF cfg.log_to_file /\ log_file.state # "none"
     THEN /\ local' = [local EXCEPT ![t] = buffer \o local[t]]
          /\ pc' = [pc EXCEPT ![t] = "store"]
          /\ UNCHANGED lock
     ELSE /\ local' = [local EXCEPT ![t] = <<>>]
          /\ pc' = [pc EXCEPT ![t] = "idle"]
          /\ lock' = None

\* The end of Logger.write: d is the world after the loop.
WriteDrained(t, d) ==
  /\ Apply(d)
  /\ raised' = IF d.st = "ok" THEN raised ELSE raised \cup {Fault("write", d)}
  /\ local' = [local EXCEPT ![t] = <<>>]
  /\ pc' = [pc EXCEPT ![t] = "idle"]
  /\ lock' = None

\* Logger.write line 177: the store that ends "self.buffer += message".
WriteStore(t) ==
  /\ pc[t] = "store"
  /\ buffer' = local[t]
  /\ local' = [local EXCEPT ![t] = <<>>]
  /\ pc' = [pc EXCEPT ![t] = "drain"]
  /\ UNCHANGED <<now, cfg, sys_stdout, sys_stderr, console, dir_exists, files,
                 terminal, log_file, current_log_path, current_day, lock, raised,
                 calls, callMark, conMark, fileMark, captured, setups, budget>>

\* Logger.write lines 178-183: the loop that extracts the lines, and the
\* release of the lock.
WriteDrain(t) ==
  /\ pc[t] = "drain"
  /\ UNCHANGED <<now, cfg, sys_stdout, sys_stderr, dir_exists, terminal,
                 callMark, conMark, fileMark, captured, setups, budget>>
  /\ WriteDrained(t, DrainBuffer(World, now))

\* The wall clock advances.
Tick ==
  /\ now < MaxNow
  /\ now' = now + 1
  /\ UNCHANGED <<cfg, sys_stdout, sys_stderr, console, dir_exists, files,
                 terminal, log_file, current_log_path, current_day, buffer, lock,
                 pc, local, raised, calls, callMark, conMark, fileMark, captured,
                 setups, budget>>

\* Logging.cleanup_logs called on its own, by thread t.
CleanupCall(t, visited, skipped) ==
  /\ pc[t] = "idle"
  /\ sys_stdout # "Logger"
  /\ setups < MaxSetups
  /\ setups' = setups + 1
  /\ Apply(CleanupLogs(World, now, TRUE, visited, skipped, FALSE, dir_exists))
  /\ UNCHANGED <<now, cfg, sys_stdout, sys_stderr, dir_exists, terminal, lock,
                 pc, local, raised, callMark, conMark, fileMark, captured, budget>>

\* ------------------------------------------------------------ specifications
OldTime == 0 - (MaxRetention + 1) * TicksPerDay

Configs ==
  [ log_to_file : BOOLEAN, log_to_console : BOOLEAN,
    cleanup_on_startup : BOOLEAN, retention_days : {MaxRetention} ]

InitialDir ==
  [f \in Names |->
     IF f = "old_a" THEN [kind |-> "file", mtime |-> OldTime, content |-> <<>>]
     ELSE IF f = "subdir" THEN [kind |-> "dir", mtime |-> OldTime, content |-> <<>>]
     ELSE NoEntry]

InitCommon ==
  /\ now = 0
  /\ sys_stdout = "stdout0"
  /\ sys_stderr = "stderr0"
  /\ console = <<>>
  /\ terminal = None
  /\ log_file = NoHandle
  /\ current_log_path = None
  /\ current_day = NoDay
  /\ buffer = <<>>
  /\ lock = None
  /\ pc = [t \in Threads |-> "idle"]
  /\ local = [t \in Threads |-> <<>>]
  /\ raised = {}
  /\ calls = <<>>
  /\ callMark = 0
  /\ conMark = 0
  /\ fileMark = [f \in Names |-> 0]
  /\ captured = <<None, None>>
  /\ setups = 0

Init ==
  /\ InitCommon
  /\ cfg \in Configs
  /\ dir_exists = TRUE
  /\ files = InitialDir
  /\ budget = MaxWrites

AllVisited(fs) == Present(fs)

\* The interceptor in use: installs and uninstalls, writes by two threads,
\* flushes, the clock, and file opens that may fail.
Next ==
  \/ \E t \in Threads, canOpen \in BOOLEAN : Setup(t, canOpen, AllVisited(files), {})
  \/ \E t \in Threads : Shutdown(t)
  \/ \E t \in Threads : Flush(t)
  \/ \E t \in Threads : \E m \in MsgsOf(t) : WriteEnter(t, m)
  \/ \E t \in Threads, canOpen \in BOOLEAN : WriteRotate(t, canOpen)
  \/ \E t \in Threads : WriteAppend(t)
  \/ \E t \in Threads : WriteStore(t)
  \/ \E t \in Threads : WriteDrain(t)
  \/ Tick

Spec == Init /\ [][Next]_vars

\* Threads writing whole lines within one calendar day: every call carries
\* one message of its thread, every file open succeeds, no sweep faults.
ThreadWrites == MaxWrites + 2

InitThreads ==
  /\ InitCommon
  /\ cfg \in {c \in Configs : c.log_to_file}
  /\ dir_exists = TRUE
  /\ files = InitialDir
  /\ budget = ThreadWrites

SameDayTick == Tick /\ DateOf(now') = DateOf(now)

NextThreads ==
  \/ \E t \in Threads : Setup(t, TRUE, AllVisited(files), {})
  \/ \E t \in Threads : Flush(t)
  \/ \E t \in Threads : \E m \in LinesOf(t) : WriteEnter(t, m)
  \/ \E t \in Threads : WriteRotate(t, TRUE)
  \/ \E t \in Threads : WriteAppend(t)
  \/ \E t \in Threads : WriteStore(t)
  \/ \E t \in Threads : WriteDrain(t)
  \/ SameDayTick

SpecThreads == InitThreads /\ [][NextThreads]_vars

\* The retention sweep on its own, over varied directories, with I/O errors
\* on any entry.
SweepTimes == OldTime..0

SweepEntries(f) ==
  IF f = "subdir" THEN {NoEntry, [kind |-> "dir", mtime |-> OldTime, content |-> <<>>]}
  ELSE IF f \in {"old_a", LogFormat(0)}
  THEN {NoEntry} \cup {[kind |-> "file", mtime |-> m, content |-> <<>>] : m \in SweepTimes}
  ELSE {NoEntry}

InitSweep ==
  /\ InitCommon
  /\ cfg \in [ log_to_file : {TRUE}, log_to_console : {TRUE},
                cleanup_on_startup : {TRUE}, retention_days : 0..MaxRetention ]
  /\ dir_exists \in BOOLEAN
  /\ files \in [Names -> UNION {SweepEntries(f) : f \in Names}]
  /\ \A f \in Names : files[f] \in SweepEntries(f)
  /\ ~dir_exists => Present(files) = {}
  /\ budget = 0

SweepFaults(fs) ==
  {vs \in (SUBSET Present(fs)) \X (SUBSET Present(fs)) : vs[2] \subseteq vs[1]}

NextSweep ==
  \/ \E t \in Threads, vs \in SweepFaults(files) : CleanupCall(t, vs[1], vs[2])
  \/ Tick

SpecSweep == InitSweep /\ [][NextSweep]_vars

\* ------------------------------------------------------------- observations
Installed == sys_stdout = "Logger"

\* The interceptor is installed with its file open and no write in progress.
Quiet == Installed /\ cfg.log_to_file /\ log_file.state = "open" /\ lock = None

RECURSIVE Concat(_)
Concat(ss) == IF ss = <<>> THEN <<>> ELSE Head(ss) \o Concat(Tail(ss))

IsPrefix(s, t) == Len(s) <= Len(t) /\ s = SubSeq(t, 1, Len(s))

\* The write calls since the install, and their arguments joined.
SessionCalls == SubSeq(calls, callMark + 1, Len(calls))
WriteArgs == Concat([i \in 1..Len(SessionCalls) |-> SessionCalls[i].msg])

\* The text the console received since the install.
ConsoleSinceInstall == SubSeq(console, conMark + 1, Len(console))

\* The newline-terminated segments of a text, in order.
RECURSIVE Segments(_)
Segments(s) ==
  IF ~HasNL(s) THEN <<>>
  ELSE <<SplitLine(s).line>> \o Segments(SplitLine(s).rest)

IsNonBlank(x) == Strip(x) # <<>>
NonBlankSegments(s) == SelectSeq(Segments(s), IsNonBlank)

\* The lines appended since the install to the file the handle is open on.
AppendedLines ==
  Segments(SubSeq(files[log_file.path].content, fileMark[log_file.path] + 1,
                  Len(files[log_file.path].content)))

\* A record line "[<timestamp>] <message>" and its message.
IsRecord(line) ==
  Len(line) >= 4 /\ line[1] = "[" /\ line[3] = "]" /\ line[4] = SP
RecordMessage(line) == SubSeq(line, 5, Len(line))

AllRecords ==
  UNION { {Segments(files[f].content)[i] : i \in 1..Len(Segments(files[f].content))}
          : f \in Names }

\* ------------------------------------------------------------------ claims
\* C1: with console output enabled, the text the console receives from an
\* installed interceptor is exactly the write arguments joined in call order:
\* at every moment a prefix of them, and all of them once no write is in
\* progress and every thread is back from its call.
C1_EchoExact ==
  (Installed /\ cfg.log_to_console) =>
     /\ IsPrefix(ConsoleSinceInstall, WriteArgs)
     /\ (lock = None /\ \A t \in Threads : pc[t] = "idle")
          => ConsoleSinceInstall = WriteArgs

\* C2: with the file open and no write in progress, the number of record
\* lines appended since the install equals the number of newline-terminated
\* segments of the joined write arguments that are not blank, and each
\* appended line is a record.
C2_RecordCount ==
  Quiet =>
     /\ Len(AppendedLines) = Len(NonBlankSegments(WriteArgs))
     /\ \A i \in 1..Len(AppendedLines) : IsRecord(AppendedLines[i])

\* C2 case: one write with two lines and a blank residue, and a write of a
\* lone newline, have left exactly two records.
C2_Witness ==
  /\ Quiet
  /\ Len(SessionCalls) = 2
  /\ \E i \in 1..2 : SessionCalls[i].msg = <<"a", NL, "b", SP, NL, SP>>
  /\ \E i \in 1..2 : SessionCalls[i].msg = <<NL>>
  /\ Len(AppendedLines) = 2

\* C3 as stated: no record line in any file carries a message with leading
\* or trailing whitespace.
C3_RecordsTrimmed ==
  \A r \in AllRecords : IsRecord(r) => RecordMessage(r) = Strip(RecordMessage(r))

\* C3 amended: with the file open and no write in progress, the records
\* appended since the install are, in order, the line template applied to a
\* timestamp of the clock and to each non-blank segment of the joined write
\* arguments exactly as extracted, its surrounding whitespace kept.
C3_RecordsUntrimmed ==
  Quiet =>
     /\ Len(AppendedLines) = Len(NonBlankSegments(WriteArgs))
     /\ \A i \in 1..Len(AppendedLines) :
          \E t \in 0..now :
            AppendedLines[i] = LineFormat(Timestamp(t), NonBlankSegments(WriteArgs)[i])

\* C3 case: a record whose message keeps the whitespace around its segment.
C3_Witness ==
  /\ Quiet
  /\ \E i \in 1..Len(AppendedLines) :
       RecordMessage(AppendedLines[i]) # Strip(RecordMessage(AppendedLines[i]))

\* C4: a write that found the day changed, closed the old file and opened
\* the file of the new day goes on to append its records there: a thread
\* holding the lock with the new day's file open is on its way to the file,
\* never stopped.
C4_RecordsLandInNewFile ==
  \A t \in Threads :
    (lock = t /\ pc[t] # "rotate" /\ log_file.state = "open"
       /\ log_file.path = LogFormat(now))
      => pc[t] \in {"append", "store", "drain"}

\* The messages of the threads without their newline, and the calls the
\* threads made since the install.
LineBodies == {SubSeq(m, 1, Len(m) - 1) : m \in UNION {LinesOf(t) : t \in Threads}}
IsThreadCall(c) == c.th \in Threads
ThreadCalls == SelectSeq(SessionCalls, IsThreadCall)
IsThreadRecord(line) == RecordMessage(line) \in LineBodies
ThreadRecords == SelectSeq(AppendedLines, IsThreadRecord)

\* The number of elements of a sequence equal to x.
RECURSIVE Count(_, _)
Count(ss, x) ==
  IF ss = <<>> THEN 0
  ELSE (IF Head(ss) = x THEN 1 ELSE 0) + Count(Tail(ss), x)

\* A line the Logging facade printed through the interceptor.
IsPrinted(line) == RecordMessage(line)[1] \in {"[", "Logging is already set up."}

\* C5: when the threads have made their calls, each of one whole line, and
\* none is in progress, the file holds one record per call and every record
\* of a thread is exactly one of the messages: each message has as many
\* records as calls, and no appended line is anything else.
C5_OneRecordPerMessage ==
  Quiet =>
     /\ Len(ThreadRecords) = Len(ThreadCalls)
     /\ \A b \in LineBodies :
          Count([i \in 1..Len(ThreadRecords) |-> RecordMessage(ThreadRecords[i])], b)
            = Count([i \in 1..Len(ThreadCalls) |-> ThreadCalls[i].msg], b \o <<NL>>)
     /\ \A i \in 1..Len(AppendedLines) :
          /\ IsRecord(AppendedLines[i])
          /\ IsThreadRecord(AppendedLines[i]) \/ IsPrinted(AppendedLines[i])

\* C5 case: two threads have each made two calls with distinct messages,
\* and the four records are in the file.
C5_Witness ==
  /\ Quiet
  /\ Len(ThreadCalls) = ThreadWrites
  /\ \A t \in Threads : \A m \in LinesOf(t) :
       \E i \in 1..Len(ThreadCalls) : ThreadCalls[i] = [th |-> t, msg |-> m]
  /\ Len(ThreadRecords) = ThreadWrites

\* C6: a call of setup while the interceptor is installed changes nothing:
\* the slots, the captured stream, the directory and the log file stay as
\* they were.
C6_SecondInstallNoOp ==
  [][(Installed /\ setups' # setups) =>
       UNCHANGED <<sys_stdout, sys_stderr, terminal, files, log_file,
                   current_log_path, current_day, buffer, lock, pc>>]_vars

\* C7: once the interceptor is uninstalled, both slots hold the stream that
\* sys.stdout held when the interceptor was constructed, and that is not an
\* interceptor.
C7_RestoredStream ==
  (terminal # None /\ ~Installed) =>
     /\ sys_stdout = captured[1]
     /\ sys_stderr = captured[1]
     /\ captured[1] # "Logger"

\* C7 case: uninstalled after writes of both threads, a day change, and the
\* rotation a write made to the file of the new day.
C7_Witness ==
  /\ terminal # None /\ ~Installed
  /\ \A t \in Threads : \E i \in (callMark + 1)..Len(calls) : calls[i].th = t
  /\ files[LogFormat(0)].kind = "file"
  /\ current_day = DateOf(now) /\ current_log_path = LogFormat(now)
  /\ DateOf(now) > 0
  /\ sys_stdout = "stdout0" /\ sys_stderr = "stdout0"

\* The line close appends for a residue.
ResidueLine(t, text) == <<"[", Timestamp(t), "]", SP>> \o Strip(text) \o <<NL>>

\* C8: an uninstall that finds the file open appends the trimmed residue of
\* the buffer as exactly one record and empties the buffer when the residue
\* is not blank, appends nothing when it is blank, and in both cases leaves no
\* handle; with no handle held it changes no file.
C8_ResidueFlushed ==
  [][(Installed /\ sys_stdout' # "Logger" /\ log_file.state # "closed") =>
       /\ log_file' = NoHandle
       /\ IF log_file.state = "open" /\ Strip(buffer) # <<>>
          THEN /\ files' = [files EXCEPT
                              ![log_file.path].content = @ \o ResidueLine(now, buffer),
                              ![log_file.path].mtime = now]
               /\ buffer' = <<>>
          ELSE files' = files]_vars

\* C8 case: uninstalled with the residue " a" in the buffer, and the record
\* of "a" is the last line of the file.
C8_Witness ==
  /\ terminal # None /\ ~Installed
  /\ log_file = NoHandle /\ buffer = <<>>
  /\ Len(calls) > 0 /\ calls[Len(calls)].msg = <<SP, "a">>
  /\ current_log_path # None
  /\ Len(files[current_log_path].content) >= 6
  /\ SubSeq(files[current_log_path].content,
            Len(files[current_log_path].content) - 5,
            Len(files[current_log_path].content))
       = <<"[", Timestamp(now), "]", SP, "a", NL>>

\* What one sweep printed, and whether it reported an I/O error.
SweepOutput == SubSeq(console', Len(console) + 1, Len(console'))
ReportsError(out) ==
  \E i \in 1..Len(out) : out[i] \in {"Error accessing file", "Error during log cleanup"}

\* C9: a sweep that reports no I/O error removes exactly the regular files
\* whose modification date is before today minus retention_days and leaves
\* every other entry as it was; with the directory missing it reports no
\* error; and no sweep raises.
C9_SweepDeletesExpired ==
  [][(setups' # setups) =>
       /\ raised' = raised
       /\ ~dir_exists => ~ReportsError(SweepOutput)
       /\ ~ReportsError(SweepOutput) =>
            files' = [f \in Names |->
                        IF files[f].kind = "file"
                           /\ DateOf(files[f].mtime) < DateOf(now) - cfg.retention_days
                        THEN NoEntry ELSE files[f]]]_vars

\* C9 case: a sweep without errors at the first tick deleted a file, kept a
\* file dated exactly today minus retention_days, and kept the subdirectory.
C9_Witness ==
  /\ now = 0 /\ setups > 0
  /\ ~ReportsError(console)
  /\ \E i \in 1..Len(console) : console[i] = "Deleted old log file:"
  /\ \E f \in Names : /\ files[f].kind = "file"
                      /\ DateOf(files[f].mtime) = DateOf(now) - cfg.retention_days
  /\ files["subdir"].kind = "dir"

\* C10: no failure to open the log file leaves setup or write as an
\* exception.
C10_OpenFailureContained ==
  /\ "setup:OSError" \notin raised
  /\ "write:OSError" \notin raised

\* C11: every write call returns and releases the lock: whoever holds the lock
\* is at a step of write that it can take and that leads to the release, the
\* write that found the day changed included.
C11_WriteReturns ==
  \A t \in Threads : lock = t => InWrite(t)

\* The text one caller wrote since the install, joined, and the lines it
\* makes up (its unterminated end counted as a line).
RECURSIVE ArgsFrom(_, _)
ArgsFrom(cs, th) ==
  IF cs = <<>> THEN <<>>
  ELSE (IF Head(cs).th = th THEN Head(cs).msg ELSE <<>>) \o ArgsFrom(Tail(cs), th)

CallerLines(th) ==
  {Segments(ArgsFrom(SessionCalls, th) \o <<NL>>)[i] :
     i \in 1..Len(Segments(ArgsFrom(SessionCalls, th) \o <<NL>>))}

\* C12: no record appended to the file holds text of more than one thread's
\* line: when only the threads have written since the install, the message
\* of every appended record is a line of the text of a single thread, also
\* when a thread emits a line as a fragment and, in a later call, its newline.
C12_NoMixedRecords ==
  (Installed /\ cfg.log_to_file /\ log_file.state = "open"
     /\ \A i \in 1..Len(SessionCalls) : SessionCalls[i].th \in Threads) =>
     \A i \in 1..Len(AppendedLines) :
        \E th \in Threads : RecordMessage(AppendedLines[i]) \in CallerLines(th)

\* C13: whenever the Logger holds a file handle, the handle is open and is
\* the file named by the filename pattern for current_day, and the stored
\* path names that file too.
C13_HandleMatchesDay ==
  (terminal # None /\ log_file.state # "none") =>
     /\ log_file.state = "open"
     /\ log_file.path = current_log_path
     /\ log_file.path = "log_" \o ToString(current_day)

\* C14: the banner is written only into a file that was absent or empty
\* when it was opened: every file holds the banner at most once, and as its
\* first text.
C14_BannerOnlyInEmptyFile ==
  \A f \in Names :
     /\ Count(files[f].content, "Logging initiated for") <= 1
     /\ \A i \in 1..Len(files[f].content) :
          files[f].content[i] = "Logging initiated for" => i = 3

\* C15: an installed interceptor that has no open file after a write is in a
\* state from which the next write retries the rotation (its current_day is
\* not today), and no write fails on a handle an earlier failure left closed.
C15_RetryAfterFailedOpen ==
  /\ (Installed /\ cfg.log_to_file /\ lock = None /\ log_file.state # "open")
       => current_day # DateOf(now)
  /\ "write:ValueError" \notin raised

\* The old files one sweep left in place, and the errors it reported.
ExpiredLeft ==
  {f \in Names : /\ files[f].kind = "file"
                 /\ DateOf(files[f].mtime) < DateOf(now) - cfg.retention_days
                 /\ files'[f].kind = "file"}
ErrorsReported(out) ==
  Count(out, "Error accessing file") + Count(out, "Error during log cleanup")

\* C16: an I/O error on one entry costs the sweep that entry only: a sweep
\* leaves no more old regular files in place than it reported errors, and it
\* raises nothing.
C16_SweepFaultIsolated ==
  [][(setups' # setups) =>
       /\ Cardinality(ExpiredLeft) <= ErrorsReported(SweepOutput)
       /\ raised' = raised]_vars

\* The text after the last newline of s (all of s when it has none).
RECURSIVE Residue(_)
Residue(s) == IF HasNL(s) THEN Residue(SplitLine(s).rest) ELSE s

\* The text appended since the install to the file the handle is open on.
AppendedText ==
  SubSeq(files[log_file.path].content, fileMark[log_file.path] + 1,
         Len(files[log_file.path].content))

\* C17: with the file open and no write in progress, the buffer holds no
\* newline and is the text after the last newline of the joined write
\* arguments, and the file holds whole lines only: the unterminated text is
\* not in it, whatever flushes happened.
C17_BufferIsResidue ==
  Quiet =>
     /\ ~HasNL(buffer)
     /\ buffer = Residue(WriteArgs)
     /\ AppendedText = <<>> \/ AppendedText[Len(AppendedText)] = NL
     /\ Len(AppendedLines) = Len(NonBlankSegments(WriteArgs))

\* C17 case: after a whole line of one thread and a fragment of the other,
\* the fragment is in the buffer and the file holds the one record.
C17_Witness ==
  /\ Quiet
  /\ Len(SessionCalls) = 2
  /\ SessionCalls[1].msg = <<"b", NL>>
  /\ SessionCalls[2].msg = <<SP, "a">>
  /\ buffer = <<SP, "a">>
  /\ Len(AppendedLines) = 1

\* C18: a write racing with an uninstall lands wholly before or wholly after
\* the residue flush and the close: no write meets a handle that another
\* thread dropped under it, and once the interceptor is uninstalled and no
\* write is in progress, no text is left in the buffer.
C18_CloseUnderLock ==
  /\ "write:AttributeError" \notin raised
  /\ (terminal # None /\ ~Installed /\ log_file = NoHandle
        /\ \A t \in Threads : pc[t] = "idle")
       => Strip(buffer) = <<>>

\* C19: with console output disabled, the console receives nothing while the
\* interceptor is installed: its text is what it was when the install
\* finished.
C19_ConsoleSilent ==
  (Installed /\ ~cfg.log_to_console) => Len(console) = conMark

\* C20: after the uninstall each slot holds what it held right before the
\* install: sys.stdout the earlier sys.stdout, sys.stderr the earlier
\* sys.stderr.
C20_SlotsRoundTrip ==
  (terminal # None /\ ~Installed) =>
     /\ sys_stdout = captured[1]
     /\ sys_stderr = captured[2]

====
